---- MODULE Spec2Model ----
(***************************************************************************)
(* The two entry points of the self-driving-car repository:                *)
(*   train_deep_q.py  the training loop, its background training thread    *)
(*                    and the window's on_close handler;                   *)
(*   main.py          the inference loop with its catch-log-continue       *)
(*                    error handling and its start-up sequence.            *)
(* Car, LineEvaluator and DeepQDriver are not part of the sources at hand; *)
(* what the entry points need of them is modelled from the specification   *)
(* and marked as such.                                                     *)
(***************************************************************************)
EXTENDS Integers, Sequences, FiniteSets, TLC

VARIABLES
    program,          \* "train" (train_deep_q.py) or "main" (main.py)
    phase,            \* "boot", "running", "aborted" (start-up raised), "crashed" (a handler
                      \* raised), "closed" (on_close has run)
    startup_error,    \* what aborted start-up, "none" otherwise
    handler,          \* the handler the event-loop thread runs: "idle", "game_loop", "on_close"
    pc,               \* its position inside that handler
    calls,            \* the calls of the current (or last) start-up or game_loop run, in order
    car_at_start,     \* Car: TRUE after init_position, FALSE once moved
    ev_score,         \* LineEvaluator: the accumulated score
    params,           \* DeepQDriver: the approximator's parameters
    model_file,       \* the weights file: "absent", "valid", "corrupt", "torn"
    memory,           \* DeepQDriver: the in-memory replay buffer
    cache,            \* DeepQDriver: number of transitions in the durable cache
    last_score, time_elapsed, game_count, skip_frame, losses, scores,
    done,             \* game_loop's local of that name
    training_thread,  \* 0 for None, else the index in threads of the last thread started
    threads,          \* every thread ever started: its position and replay_memory's progress
    join_timed_out,   \* on_close: join(timeout=10) came back with the thread still alive
    epsilon,          \* DeepQDriver: the exploration rate, in millionths
    last_crossed_index \* LineEvaluator: the checkpoint crossed last

vars == <<program, phase, startup_error, handler, pc, calls, car_at_start, ev_score,
          params, model_file, memory, cache, last_score, time_elapsed, game_count,
          skip_frame, losses, scores, done, training_thread, threads, join_timed_out,
          epsilon, last_crossed_index>>

\* ---- bounds of the model
MaxGames == 2      \* episodes played by the training loop
MaxScore == 1      \* checkpoints crossed within one episode
NumLines == 3      \* checkpoint lines around the track
DtShort == 150     \* the two tick lengths dt is drawn from
DtLong == 300
MaxDecays == 210   \* decay_epsilon calls followed when the schedule is taken alone
MaxCrossings == 40 \* checkpoints crossed in one episode when the evaluator is taken alone

\* ---- program constants
TimeLimit == 300   \* time_elapsed >= 300
BatchSize == 1024  \* 1 << 10
Epochs == 10       \* epochs handed to replay_memory
ScoreOffset == 100 \* scores.append(evaluator.get_score() + 100)
InitialEpsilon == 800000   \* epsilon=0.8, in millionths
EpsilonMin == 100000       \* epsilon_min=0.1, in millionths
\* epsilon_decay=1.01 in place of 0.99
M_DecayAboveOne == 100 + 1
EpsilonDecay == 99         \* epsilon_decay=0.99, in hundredths

Dts == {DtShort, DtLong}
\* The durable cache outlives the process: it starts empty or one short of a batch.
InitCaches == {0, BatchSize - 1}
ModelFiles == {"absent", "valid", "corrupt"}
\* A loss replay_memory may report; 0 is a loss, not an absent one.
Losses == {0, 1}

\* A logged call: its name, whether it returned (or raised), an argument of note
CallWith(op, ok, arg) == [op |-> op, ok |-> ok, arg |-> arg]
Call(op, ok) == CallWith(op, ok, "")
Called(op) == \E i \in DOMAIN calls : calls[i].op = op
Applied(op) == \E i \in DOMAIN calls : calls[i].op = op /\ calls[i].ok
Raised(op) == \E i \in DOMAIN calls : calls[i].op = op /\ ~calls[i].ok

\* The parameters: where they come from, whether a training pass has updated
\* them, and whether the last update left a pass half applied.
FreshParams == [base |-> "fresh", updated |-> FALSE, partial |-> FALSE]

\* ---- threading.Thread
NewThread == [pc |-> "begin", epochs_done |-> 0, result |-> [kind |-> "pending", val |-> 0]]
\* a thread whose run() has returned; its locals are gone
DeadThread == [pc |-> "dead", epochs_done |-> 0, result |-> [kind |-> "pending", val |-> 0]]
is_alive(t) == t.pc # "dead"
Running == {i \in DOMAIN threads : is_alive(threads[i])}
\* replay_memory has begun to read the durable cache and has not finished reading
Reading == {i \in DOMAIN threads : threads[i].pc = "reading"}
\* replay_memory has applied some of its gradient-update passes and not all
MidPass == {i \in DOMAIN threads : threads[i].pc = "training" /\ threads[i].epochs_done > 0}

Init ==
    /\ program \in {"train", "main"}
    /\ phase = "boot"
    /\ startup_error = "none"
    /\ handler = "idle"
    /\ pc = "none"
    /\ calls = <<>>
    /\ car_at_start = FALSE
    /\ ev_score = 0
    /\ params = FreshParams
    /\ model_file \in (IF program = "main" THEN ModelFiles ELSE {"absent"})
    /\ memory = <<>>
    /\ cache \in InitCaches
    /\ last_score = 0
    /\ time_elapsed = 0
    /\ game_count = 0
    /\ skip_frame = FALSE
    /\ losses = <<>>
    /\ scores = <<>>
    /\ done = FALSE
    /\ training_thread = 0
    /\ threads = <<>>
    /\ join_timed_out = FALSE
    /\ epsilon = 0
    /\ last_crossed_index = 0


\* ------------------------------------------------------------------------
\* train_deep_q.py
\* ------------------------------------------------------------------------
Train == program = "train" /\ phase = "running"

\* An exception that leaves a handler of train_deep_q.py: nothing catches it,
\* it leaves pyglet.app.run() and the process (daemon thread included) ends.
Crash(log) ==
    /\ phase' = "crashed"
    /\ handler' = "idle"
    /\ pc' = "none"
    /\ calls' = log

\* ---- LineEvaluator: the state machine over (last_crossed_index, score)
Lines == 0 .. NumLines - 1
\* the tick crosses no checkpoint line
NoLine == NumLines
\* the next expected checkpoint
ExpectedLine(idx) == (idx + 1) % NumLines
\* reset_score: the checkpoint preceding the start point
StartIndex == NumLines - 1
\* the line a tick's path crosses, as the call log shows it
LineName(line) == IF line = NoLine THEN "none" ELSE ToString(line)
\* (as a variant: any line other than the one crossed last counts as progress)
M_AdvanceOnAnyOtherLine(idx, sc, line) ==
    IF line # NoLine /\ line # idx
    THEN [index |-> line, score |-> sc + 1]
    ELSE [index |-> idx, score |-> sc]
\* evaluate: only a crossing of the next expected line advances the index and
\* adds the per-checkpoint reward
evaluate(idx, sc, line) ==
    IF line = ExpectedLine(idx)
    THEN [index |-> line, score |-> sc + 1]
    ELSE [index |-> idx, score |-> sc]

\* ---- DeepQDriver.decay_epsilon: epsilon = max(epsilon_min, epsilon * epsilon_decay)
decay_epsilon(eps) ==
    LET e == (eps * EpsilonDecay) \div 100
    IN  IF e > EpsilonMin THEN e ELSE EpsilonMin

\* An exception raised by module-level code is not caught (or is re-raised):
\* the module stops before schedule_interval and pyglet.app.run().
M_StartDespiteError(error) == "running"
StartupPhase(error) == IF error = "none" THEN "running" ELSE "aborted"

\* Module start-up: the track and the evaluator lines are loaded unguarded.
train_startup ==
    /\ program = "train" /\ phase = "boot"
    /\ \E track_ok \in BOOLEAN, lines_ok \in BOOLEAN :
        /\ startup_error' = IF ~track_ok THEN "track_load"
                            ELSE IF ~lines_ok THEN "lines_load" ELSE "none"
        /\ phase' = StartupPhase(startup_error')
        /\ car_at_start' = track_ok
        /\ last_crossed_index' = IF track_ok /\ lines_ok THEN StartIndex
                                 ELSE last_crossed_index
        /\ epsilon' = IF track_ok /\ lines_ok THEN InitialEpsilon ELSE epsilon
        /\ calls' = <<Call("Track.load_from_file", track_ok)>>
                    \o (IF track_ok
                        THEN <<Call("car.init_position", TRUE),
                               Call("LineEvaluator.load_lines_from_file", lines_ok)>>
                        ELSE <<>>)
    /\ UNCHANGED <<program, handler, pc, ev_score, params, model_file, memory, cache,
                   last_score, time_elapsed, game_count, skip_frame, losses, scores,
                   done, training_thread, threads, join_timed_out>>

\* if (skip_frame): skip_frame = False; return
\* (as a variant: the skipped tick's dt is counted before the return)
M_SkipCountsTime ==
    /\ Train /\ handler = "idle" /\ skip_frame
    /\ skip_frame' = FALSE
    /\ time_elapsed' = time_elapsed + DtShort
    /\ UNCHANGED <<epsilon, last_crossed_index, program, phase, startup_error, handler, pc,
                   calls, car_at_start, ev_score, params, model_file, memory, cache,
                   last_score, game_count, losses, scores, done, training_thread, threads,
                   join_timed_out>>
game_loop_skip ==
    /\ Train /\ handler = "idle" /\ skip_frame
    /\ skip_frame' = FALSE
    /\ UNCHANGED <<epsilon, last_crossed_index, program, phase, startup_error, handler, pc,
                   calls, car_at_start, ev_score, params, model_file, memory, cache,
                   last_score, time_elapsed, game_count, losses, scores, done,
                   training_thread, threads, join_timed_out>>

\* The training flag each entry point hands to calculate_command
FlagArg(flag) == IF flag THEN "True" ELSE "False"
M_TrainingFlagOff == FALSE
TrainingFlag == TRUE
M_InferenceFlagOn == TRUE
InferenceFlag == FALSE

\* time_elapsed += dt; state = get_input_data(..); calculate_command(car, track, True)
game_loop_begin ==
    /\ Train /\ handler = "idle" /\ ~skip_frame
    /\ game_count < MaxGames
    /\ \E dt \in Dts, fail \in {"none", "get_input_data", "calculate_command"} :
        /\ time_elapsed' = time_elapsed + dt
        /\ IF fail = "get_input_data"
           THEN Crash(<<Call("get_input_data", FALSE)>>)
           ELSE IF fail = "calculate_command"
           THEN Crash(<<Call("get_input_data", TRUE),
                        CallWith("calculate_command", FALSE, FlagArg(TrainingFlag))>>)
           ELSE /\ handler' = "game_loop"
                /\ pc' = "step"
                /\ calls' = <<Call("get_input_data", TRUE),
                              CallWith("calculate_command", TRUE, FlagArg(TrainingFlag))>>
                /\ UNCHANGED phase
    /\ UNCHANGED <<epsilon, last_crossed_index, program, startup_error, car_at_start,
                   ev_score, params, model_file, memory, cache, last_score, game_count,
                   skip_frame, losses, scores, done, training_thread, threads,
                   join_timed_out>>

\* evaluator.evaluate(dt): the line the tick's path crosses, if any (the
\* expected one only while the episode's score is below the bound)
Crossings ==
    {l \in Lines \cup {NoLine} :
        ev_score < MaxScore \/ l # ExpectedLine(last_crossed_index)}

\* reward = evaluator.get_score() - last_score
M_RewardAfterUpdate(score, last) == score - score
Reward(score, last) == score - last

\* if (done or time_elapsed >= 300)
M_OnlyWhenDone(d, t) == d
EpisodeEnds(d, t) == d \/ t >= TimeLimit

\* The order of the episode-end block: dump_memory_to_cache, the thread start,
\* then the bookkeeping and the reset.
M_SpawnBeforeDump == <<"spawn", "dump", "reset">>
M_JoinAfterSpawn == <<"dump", "spawn", "join", "reset">>
EpisodeEndOrder == <<"dump", "spawn", "reset">>

StepAfter(p) ==
    LET i == CHOOSE k \in DOMAIN EpisodeEndOrder : EpisodeEndOrder[k] = p
    IN  IF i < Len(EpisodeEndOrder) THEN EpisodeEndOrder[i + 1] ELSE "return"

\* car.move; done = not evaluate; reward; last_score; new_state; remember; the test
game_loop_step ==
    /\ Train /\ handler = "game_loop" /\ pc = "step"
    /\ \E line \in Crossings, alive \in BOOLEAN,
          fail \in {"none", "car.move", "evaluate", "get_input_data", "remember"} :
        LET moved == fail # "car.move"
            evaluated == moved /\ fail # "evaluate"
            ev == IF evaluated THEN evaluate(last_crossed_index, ev_score, line)
                  ELSE [index |-> last_crossed_index, score |-> ev_score]
            score == ev.score
            d == ~alive
            log == calls \o <<CallWith("car.move", moved, "policy")>>
                   \o (IF moved THEN <<Call("evaluate", evaluated)>> ELSE <<>>)
                   \o (IF evaluated
                       THEN <<Call("get_input_data", fail # "get_input_data")>> ELSE <<>>)
                   \o (IF evaluated /\ fail # "get_input_data"
                       THEN <<Call("remember", fail # "remember")>> ELSE <<>>)
        IN  /\ car_at_start' = IF moved THEN FALSE ELSE car_at_start
            /\ ev_score' = score
            /\ last_crossed_index' = ev.index
            /\ last_score' = IF evaluated THEN score ELSE last_score
            /\ done' = IF evaluated THEN d ELSE done
            /\ IF fail # "none"
               THEN /\ Crash(log)
                    /\ UNCHANGED memory
               ELSE /\ memory' = Append(memory, [reward |-> Reward(score, last_score),
                                                 done |-> d])
                    /\ calls' = log
                    /\ IF EpisodeEnds(d, time_elapsed)
                       THEN pc' = EpisodeEndOrder[1] /\ handler' = handler
                       ELSE pc' = "none" /\ handler' = "idle"
                    /\ UNCHANGED phase
    /\ UNCHANGED <<epsilon, program, startup_error, params, model_file, cache,
                   time_elapsed, game_count, skip_frame, losses, scores, training_thread,
                   threads, join_timed_out>>

\* driver.dump_memory_to_cache(): the buffer is appended to the cache, then cleared
game_loop_dump ==
    /\ Train /\ handler = "game_loop" /\ pc = "dump"
    /\ \E ok \in BOOLEAN :
        IF ok
        THEN /\ cache' = cache + Len(memory)
             /\ memory' = <<>>
             /\ pc' = StepAfter("dump")
             /\ calls' = Append(calls, Call("dump_memory_to_cache", TRUE))
             /\ UNCHANGED <<phase, handler>>
        ELSE /\ Crash(Append(calls, Call("dump_memory_to_cache", FALSE)))
             /\ UNCHANGED <<cache, memory>>
    /\ UNCHANGED <<epsilon, last_crossed_index, program, startup_error, car_at_start,
                   ev_score, params, model_file, last_score, time_elapsed, game_count,
                   skip_frame, losses, scores, done, training_thread, threads,
                   join_timed_out>>

\* if training_thread is None or not training_thread.is_alive()
M_StartOnlyFirst(tt, ths) == tt = 0
M_AlwaysStart(tt, ths) == TRUE
ShouldStartThread(tt, ths) == tt = 0 \/ ~is_alive(ths[tt])

\* the thread is started, or the start is skipped with a message
game_loop_spawn ==
    /\ Train /\ handler = "game_loop" /\ pc = "spawn"
    /\ IF ShouldStartThread(training_thread, threads)
       THEN /\ threads' = Append(threads, NewThread)
            /\ training_thread' = Len(threads) + 1
            /\ calls' = Append(calls, Call("Thread.start", TRUE))
       ELSE /\ calls' = Append(calls, Call("skip_start", TRUE))
            /\ UNCHANGED <<training_thread, threads>>
    /\ pc' = StepAfter("spawn")
    /\ UNCHANGED <<epsilon, last_crossed_index, program, phase, startup_error, handler,
                   car_at_start, ev_score, params, model_file, memory, cache, last_score,
                   time_elapsed, game_count, skip_frame, losses, scores, done,
                   join_timed_out>>

\* scores.append .. skip_frame = True
game_loop_reset ==
    /\ Train /\ handler = "game_loop" /\ pc = "reset"
    /\ scores' = Append(scores, ev_score + ScoreOffset)
    /\ game_count' = game_count + 1
    /\ last_score' = 0
    /\ time_elapsed' = 0
    /\ car_at_start' = TRUE
    /\ ev_score' = 0
    /\ last_crossed_index' = StartIndex
    /\ epsilon' = decay_epsilon(epsilon)
    /\ skip_frame' = TRUE
    /\ calls' = calls \o <<Call("decay_epsilon", TRUE), Call("car.init_position", TRUE),
                           Call("reset_score", TRUE)>>
    /\ handler' = "idle"
    /\ pc' = "none"
    /\ UNCHANGED <<program, phase, startup_error, params, model_file, memory, cache,
                   losses, done, training_thread, threads, join_timed_out>>

\* Every step the event-loop thread can take inside game_loop
GameLoopStep ==
    game_loop_step \/ game_loop_dump \/ game_loop_spawn \/ game_loop_reset

\* if training_thread is not None and training_thread.is_alive()
M_NeverJoin(tt, ths) == FALSE
NeedsJoin(tt, ths) == tt # 0 /\ is_alive(ths[tt])

\* on_close, up to the join
on_close_begin ==
    /\ Train /\ handler = "idle"
    /\ handler' = "on_close"
    /\ pc' = IF NeedsJoin(training_thread, threads) THEN "join" ELSE "save"
    /\ UNCHANGED <<epsilon, last_crossed_index, program, phase, startup_error, calls,
                   car_at_start, ev_score, params, model_file, memory, cache, last_score,
                   time_elapsed, game_count, skip_frame, losses, scores, done,
                   training_thread, threads, join_timed_out>>

\* training_thread.join(timeout=10): the ten seconds run out on a live thread
join_timeout ==
    /\ Train /\ handler = "on_close" /\ pc = "join"
    /\ is_alive(threads[training_thread])
    /\ ~join_timed_out
    /\ join_timed_out' = TRUE
    /\ pc' = "save"
    /\ UNCHANGED <<epsilon, last_crossed_index, program, phase, startup_error, handler,
                   calls, car_at_start, ev_score, params, model_file, memory, cache,
                   last_score, time_elapsed, game_count, skip_frame, losses, scores, done,
                   training_thread, threads>>

\* training_thread.join(timeout=10): the thread has ended
join_return ==
    /\ Train /\ handler = "on_close" /\ pc = "join"
    /\ ~is_alive(threads[training_thread])
    /\ pc' = "save"
    /\ UNCHANGED <<epsilon, last_crossed_index, program, phase, startup_error, handler,
                   calls, car_at_start, ev_score, params, model_file, memory, cache,
                   last_score, time_elapsed, game_count, skip_frame, losses, scores, done,
                   training_thread, threads, join_timed_out>>

\* The weights file save_model_weights leaves: a copy of the parameters as they
\* are, torn when a pass is half way through its updates.
SavedFile == IF MidPass # {} THEN "torn" ELSE "valid"

\* driver.save_model_weights("model.h5") inside try/except; return True.
\* Closing the window is the teardown of the run: the model follows it no further.
on_close_save ==
    /\ Train /\ handler = "on_close" /\ pc = "save"
    /\ \E ok \in BOOLEAN : model_file' = IF ok THEN SavedFile ELSE model_file
    /\ phase' = "closed"
    /\ handler' = "idle"
    /\ pc' = "none"
    /\ UNCHANGED <<epsilon, last_crossed_index, program, startup_error, calls,
                   car_at_start, ev_score, params, memory, cache, last_score, time_elapsed,
                   game_count, skip_frame, losses, scores, done, training_thread, threads,
                   join_timed_out>>

\* ---- the training thread: _background_replay(1 << 10, 10)
ThreadFrame ==
    UNCHANGED <<epsilon, last_crossed_index, program, phase, startup_error, handler, pc,
                calls, car_at_start, ev_score, model_file, memory, cache, last_score,
                time_elapsed, game_count, skip_frame, scores, done, training_thread,
                join_timed_out>>

\* try: loss = driver.replay_memory(batch_size, epochs): the call is entered
background_replay_call(i) ==
    /\ Train /\ threads[i].pc = "begin"
    /\ threads' = [threads EXCEPT ![i].pc = "reading"]
    /\ UNCHANGED <<params, losses>>
    /\ ThreadFrame

\* replay_memory: the transitions are read from the durable cache; fewer than
\* batch_size of them is reported as no loss
replay_memory_sample(i) ==
    /\ Train /\ threads[i].pc = "reading"
    /\ \E ok \in BOOLEAN :
        threads' = [threads EXCEPT ![i] =
            IF ~ok THEN [@ EXCEPT !.pc = "returned", !.result = [kind |-> "raise", val |-> 0]]
            ELSE IF cache < BatchSize
            THEN [@ EXCEPT !.pc = "returned", !.result = [kind |-> "none", val |-> 0]]
            ELSE [@ EXCEPT !.pc = "training"]]
    /\ UNCHANGED <<params, losses>>
    /\ ThreadFrame

\* replay_memory: one of the epochs gradient-update passes over the one live copy
\* of the parameters; the last one returns the loss
replay_memory_epoch(i) ==
    /\ Train /\ threads[i].pc = "training"
    /\ \E ok \in BOOLEAN, loss \in Losses :
        IF ~ok
        THEN /\ threads' = [threads EXCEPT ![i].pc = "returned",
                                           ![i].result = [kind |-> "raise", val |-> 0]]
             /\ UNCHANGED params
        ELSE /\ params' = [params EXCEPT !.updated = TRUE,
                                          !.partial = threads[i].epochs_done + 1 < Epochs]
             /\ threads' = [threads EXCEPT ![i] =
                    IF @.epochs_done + 1 < Epochs
                    THEN [@ EXCEPT !.epochs_done = @ + 1]
                    ELSE [@ EXCEPT !.epochs_done = @ + 1, !.pc = "returned",
                                   !.result = [kind |-> "loss", val |-> loss]]]
    /\ UNCHANGED losses
    /\ ThreadFrame

\* if loss is not None: losses.append(loss) .. except Exception: print
M_AppendIfTruthy(ls, result) ==
    IF result.kind = "loss" /\ result.val # 0 THEN Append(ls, result.val) ELSE ls
LossesAfter(ls, result) ==
    IF result.kind = "loss" THEN Append(ls, result.val) ELSE ls

background_replay_finish(i) ==
    /\ Train /\ threads[i].pc = "returned"
    /\ losses' = LossesAfter(losses, threads[i].result)
    /\ threads' = [threads EXCEPT ![i] = DeadThread]
    /\ UNCHANGED params
    /\ ThreadFrame

\* ------------------------------------------------------------------------
\* main.py
\* ------------------------------------------------------------------------
\* DeepQDriver.load_model_weights: a valid file replaces the parameters, a
\* missing or corrupt one raises and leaves them as they were.
load_model_weights(p, file) ==
    IF file \in {"valid", "torn"}
    THEN [ok |-> TRUE, params |-> [p EXCEPT !.base = "loaded", !.partial = file = "torn"]]
    ELSE [ok |-> FALSE, params |-> p]

\* if os.path.exists(MODEL_PATH)
ModelFileExists(file) == file # "absent"

\* except Exception as e: log.exception(..); log.warning("Continuing without ..")
M_ReraiseLoadError == "model_load"
AfterLoadError == "none"

\* DeepQDriver(accepted_sensors=10, ..): epsilon keeps the constructor's default,
\* which the entry point does not state
DefaultEpsilons == {0, InitialEpsilon}

\* Start-up of main.py, from the asset checks to schedule_interval(game_loop, ..)
main_startup ==
    /\ program = "main" /\ phase = "boot"
    /\ \E track_exists \in BOOLEAN, lines_exist \in BOOLEAN, track_ok \in BOOLEAN,
          init_ok \in BOOLEAN, fallback_ok \in BOOLEAN, lines_ok \in BOOLEAN,
          default \in DefaultEpsilons :
        LET assets == track_exists /\ lines_exist
            placed == init_ok \/ fallback_ok
            geometry == assets /\ track_ok /\ placed /\ lines_ok
            wanted == ModelFileExists(model_file)
            loaded == load_model_weights(FreshParams, model_file)
            error == IF ~assets THEN "asset_missing"
                     ELSE IF ~track_ok THEN "track_load"
                     ELSE IF ~placed THEN "car_init"
                     ELSE IF ~lines_ok THEN "lines_load"
                     ELSE IF wanted /\ ~loaded.ok THEN AfterLoadError
                     ELSE "none"
        IN  /\ startup_error' = error
            /\ phase' = StartupPhase(error)
            /\ car_at_start' = (assets /\ track_ok /\ placed)
            /\ last_crossed_index' = IF geometry THEN StartIndex ELSE last_crossed_index
            /\ epsilon' = IF geometry THEN default ELSE epsilon
            /\ params' = IF geometry /\ wanted THEN loaded.params ELSE FreshParams
            /\ calls' =
                 IF ~assets THEN <<>>
                 ELSE <<Call("Track.load_from_file", track_ok)>>
                      \o (IF track_ok THEN <<Call("car.init_position", init_ok)>> ELSE <<>>)
                      \o (IF track_ok /\ ~init_ok
                          THEN <<Call("car.init_position", fallback_ok)>> ELSE <<>>)
                      \o (IF track_ok /\ placed
                          THEN <<Call("LineEvaluator.load_lines_from_file", lines_ok)>>
                          ELSE <<>>)
                      \o (IF geometry /\ wanted
                          THEN <<Call("load_model_weights", loaded.ok)>> ELSE <<>>)
    /\ UNCHANGED <<program, handler, pc, ev_score, model_file, memory, cache, last_score,
                   time_elapsed, game_count, skip_frame, losses, scores, done,
                   training_thread, threads, join_timed_out>>

\* The places of main.py's game_loop where a call can raise
MainCallSites == {"get_input_data", "calculate_command", "car.move", "init118",
                  "evaluate", "init131", "reset135", "init144", "reset145"}

\* The sets of call sites that can raise in one run: a call that is not
\* reached does not raise
MainFailures ==
    {F \in SUBSET MainCallSites :
        /\ "init118" \in F => "car.move" \in F
        /\ "init144" \in F => "init118" \in F
        /\ "reset145" \in F => "init118" \in F /\ "init144" \notin F
        /\ "car.move" \in F => F \cap {"evaluate", "init131", "reset135"} = {}}

\* The outer "except Exception": try: init_position; reset_score; except: pass
OuterHandler(c, sc, idx, log, F) ==
    IF "init144" \in F
    THEN [car |-> c, score |-> sc, index |-> idx,
          log |-> log \o <<Call("car.init_position", FALSE)>>]
    ELSE [car |-> TRUE,
          score |-> IF "reset145" \in F THEN sc ELSE 0,
          index |-> IF "reset145" \in F THEN idx ELSE StartIndex,
          log |-> log \o <<Call("car.init_position", TRUE),
                           Call("reset_score", "reset145" \notin F)>>]

\* except around car.move: car.init_position(track.start_point, start_direction); return
MoveFailed(c, sc, idx, log, F) ==
    IF "init118" \in F
    THEN OuterHandler(c, sc, idx, log \o <<Call("car.init_position", FALSE)>>, F)
    ELSE [car |-> TRUE, score |-> sc, index |-> idx,
          log |-> log \o <<Call("car.init_position", TRUE)>>]

\* if done: try: car.init_position(..) except: log; try: evaluator.reset_score() except: log
EpisodeDone(c, sc, idx, log, F) ==
    [car |-> IF "init131" \in F THEN c ELSE TRUE,
     score |-> IF "reset135" \in F THEN sc ELSE 0,
     index |-> IF "reset135" \in F THEN idx ELSE StartIndex,
     log |-> log \o <<Call("car.init_position", "init131" \notin F),
                      Call("reset_score", "reset135" \notin F)>>]

\* except around calculate_command: turn_rate, acceleration_rate, action = 0.0, 0.0, None
M_ZeroActionWithoutState(F) ==
    IF F \cap {"calculate_command", "get_input_data"} # {} THEN "zero" ELSE "policy"
ActionUsed(F) == IF "calculate_command" \in F THEN "zero" ELSE "policy"

\* One run of main.py's game_loop: F are the call sites that raise, line and
\* alive what evaluator.evaluate finds
MainTick(c, sc, idx, F, line, alive) ==
    LET log0 == <<Call("get_input_data", "get_input_data" \notin F),
                  CallWith("calculate_command", "calculate_command" \notin F,
                           FlagArg(InferenceFlag))>>
        log1 == log0 \o <<CallWith("car.move", "car.move" \notin F, ActionUsed(F))>>
        log2 == log1 \o <<Call("evaluate", "evaluate" \notin F)>>
        ev == IF "evaluate" \in F THEN [index |-> idx, score |-> sc]
              ELSE evaluate(idx, sc, line)
        d == IF "evaluate" \in F THEN TRUE ELSE ~alive
    IN  IF "car.move" \in F THEN MoveFailed(c, sc, idx, log1, F)
        ELSE IF d THEN EpisodeDone(FALSE, ev.score, ev.index, log2, F)
        ELSE [car |-> FALSE, score |-> ev.score, index |-> ev.index, log |-> log2]

main_game_loop ==
    /\ program = "main" /\ phase = "running"
    /\ \E F \in MainFailures, line \in Crossings, alive \in BOOLEAN :
        LET r == MainTick(car_at_start, ev_score, last_crossed_index, F, line, alive)
        IN  /\ car_at_start' = r.car
            /\ ev_score' = r.score
            /\ last_crossed_index' = r.index
            /\ calls' = r.log
    /\ UNCHANGED <<epsilon, program, phase, startup_error, handler, pc, params, model_file,
                   memory, cache, last_score, time_elapsed, game_count, skip_frame, losses,
                   scores, done, training_thread, threads, join_timed_out>>

Next ==
    \/ main_startup
    \/ main_game_loop
    \/ train_startup
    \/ game_loop_skip
    \/ game_loop_begin
    \/ game_loop_step
    \/ game_loop_dump
    \/ game_loop_spawn
    \/ game_loop_reset
    \/ on_close_begin
    \/ join_timeout
    \/ join_return
    \/ on_close_save
    \/ \E i \in DOMAIN threads : background_replay_call(i)
    \/ \E i \in DOMAIN threads : replay_memory_sample(i)
    \/ \E i \in DOMAIN threads : replay_memory_epoch(i)
    \/ \E i \in DOMAIN threads : background_replay_finish(i)

Spec == Init /\ [][Next]_vars

\* ------------------------------------------------------------------------
\* The training loop followed without end, MaxGames episodes at a time
\* ------------------------------------------------------------------------
\* What the loop only appends to, counts or prints and no branch reads
\* (game_count, scores, losses, epsilon, the threads that have ended) is started
\* afresh for the next MaxGames episodes; of the durable cache replay_memory
\* reads only whether it holds a batch. The training thread, the time, the
\* buffer and skip_frame are carried over as they are.
next_window ==
    /\ Train /\ handler = "idle" /\ game_count = MaxGames
    /\ Running \subseteq {training_thread}
    /\ game_count' = 0
    /\ scores' = <<>>
    /\ losses' = <<>>
    /\ epsilon' = InitialEpsilon
    /\ cache' = IF cache < BatchSize THEN 0 ELSE BatchSize
    /\ threads' = IF training_thread = 0 THEN <<>> ELSE <<threads[training_thread]>>
    /\ training_thread' = IF training_thread = 0 THEN 0 ELSE 1
    /\ UNCHANGED <<program, phase, startup_error, handler, pc, calls, car_at_start,
                   ev_score, params, model_file, memory, last_score, time_elapsed,
                   skip_frame, done, join_timed_out, last_crossed_index>>

LiveInit == Init /\ program = "train"

\* the window stays open: on_close is not part of this specification
LiveNext ==
    \/ train_startup
    \/ game_loop_skip
    \/ game_loop_begin
    \/ game_loop_step
    \/ game_loop_dump
    \/ game_loop_spawn
    \/ game_loop_reset
    \/ next_window
    \/ \E i \in DOMAIN threads : background_replay_call(i)
    \/ \E i \in DOMAIN threads : replay_memory_sample(i)
    \/ \E i \in DOMAIN threads : replay_memory_epoch(i)
    \/ \E i \in DOMAIN threads : background_replay_finish(i)

\* pyglet.clock.schedule_interval(game_loop, 1/30): the clock keeps calling
\* game_loop, and a game_loop that has begun runs on
ClockFairness ==
    WF_vars(game_loop_skip \/ game_loop_begin \/ GameLoopStep \/ next_window)
\* training_thread.start(): the started thread is scheduled, and each step of
\* replay_memory ends
ThreadFairness ==
    WF_vars(\E i \in DOMAIN threads :
               \/ background_replay_call(i)
               \/ replay_memory_sample(i)
               \/ replay_memory_epoch(i)
               \/ background_replay_finish(i))

LiveSpec == LiveInit /\ [][LiveNext]_vars /\ ClockFairness /\ ThreadFairness

\* ------------------------------------------------------------------------
\* The driver's exploration schedule and the evaluator, each taken alone
\* ------------------------------------------------------------------------
\* The objects as the module-level code of train_deep_q.py constructs them
AfterConstruction ==
    /\ program = "train"
    /\ phase = "boot"
    /\ startup_error = "none"
    /\ handler = "idle"
    /\ pc = "none"
    /\ calls = <<>>
    /\ car_at_start = TRUE
    /\ ev_score = 0
    /\ params = FreshParams
    /\ model_file = "absent"
    /\ memory = <<>>
    /\ cache = 0
    /\ last_score = 0
    /\ time_elapsed = 0
    /\ game_count = 0
    /\ skip_frame = FALSE
    /\ losses = <<>>
    /\ scores = <<>>
    /\ done = FALSE
    /\ training_thread = 0
    /\ threads = <<>>
    /\ join_timed_out = FALSE
    /\ epsilon = InitialEpsilon
    /\ last_crossed_index = StartIndex

\* driver.decay_epsilon(); game_count += 1
episode_end_decay ==
    /\ game_count < MaxDecays
    /\ epsilon' = decay_epsilon(epsilon)
    /\ game_count' = game_count + 1
    /\ UNCHANGED <<program, phase, startup_error, handler, pc, calls, car_at_start,
                   ev_score, params, model_file, memory, cache, last_score, time_elapsed,
                   skip_frame, losses, scores, done, training_thread, threads,
                   join_timed_out, last_crossed_index>>

EpsNext == episode_end_decay

\* episodes keep ending
EpsSpec == AfterConstruction /\ [][EpsNext]_vars /\ WF_vars(EpsNext)

\* done = not evaluator.evaluate(dt): the tick's path crosses one line or none
evaluate_call ==
    /\ ev_score < MaxCrossings
    /\ \E line \in Lines \cup {NoLine} :
        LET ev == evaluate(last_crossed_index, ev_score, line)
        IN  /\ last_crossed_index' = ev.index
            /\ ev_score' = ev.score
            /\ calls' = <<CallWith("evaluate", TRUE, LineName(line))>>
    /\ UNCHANGED <<program, phase, startup_error, handler, pc, car_at_start, params,
                   model_file, memory, cache, last_score, time_elapsed, game_count,
                   skip_frame, losses, scores, done, training_thread, threads,
                   join_timed_out, epsilon>>

\* evaluator.reset_score()
reset_score_call ==
    /\ ev_score' = 0
    /\ last_crossed_index' = StartIndex
    /\ calls' = <<Call("reset_score", TRUE)>>
    /\ UNCHANGED <<program, phase, startup_error, handler, pc, car_at_start, params,
                   model_file, memory, cache, last_score, time_elapsed, game_count,
                   skip_frame, losses, scores, done, training_thread, threads,
                   join_timed_out, epsilon>>

EvalNext == evaluate_call \/ reset_score_call

EvalSpec == AfterConstruction /\ [][EvalNext]_vars

\* ------------------------------------------------------------------------
\* Properties
\* ------------------------------------------------------------------------
\* Steps of the event-loop thread, told from what they change
CalculateCommandStep ==
    /\ program = "train" /\ handler = "idle"
    /\ time_elapsed' # time_elapsed
    /\ \E i \in DOMAIN calls' : calls'[i].op = "calculate_command"
DumpStep == handler = "game_loop" /\ pc = "dump" /\ pc' # "dump"
SpawnStep == handler = "game_loop" /\ pc = "spawn" /\ pc' # "spawn"
ThreadStarted == Len(threads') > Len(threads)
SaveStep == handler = "on_close" /\ pc = "save" /\ pc' # "save"
OnCloseEntered == handler = "idle" /\ handler' = "on_close"
Finishes(i) == threads[i].pc = "returned" /\ threads'[i].pc = "dead"

\* C1: at most one background training pass is running at any time; an
\* episode that ends while the last thread started is alive starts no second one.
C1_AtMostOneTrainingPass == Cardinality(Running) <= 1

C1_Witness_StartSkipped ==
    /\ handler = "game_loop" /\ pc = "reset"
    /\ Applied("skip_start")
    /\ Cardinality(Running) = 1

\* C2: no calculate_command call of game_loop is made while a running
\* replay_memory pass has applied some but not all of its updates.
C2_InferenceNeverReadsPartialParams ==
    [][CalculateCommandStep => MidPass = {}]_vars

\* C3 as claimed: save_model_weights is never executed while a training pass
\* is still running, whatever the duration of the pass.
C3_SaveNeverDuringTraining ==
    [][SaveStep => Running = {}]_vars

\* C3 as amended: on_close joins the thread when a pass is in flight, and
\* save_model_weights is executed while a pass is still running only after
\* the join has timed out.
C3_SaveDuringTrainingOnlyAfterTimeout ==
    [][/\ (OnCloseEntered /\ Running # {} => pc' = "join")
       /\ (SaveStep /\ Running # {} => join_timed_out)]_vars

C3_Witness_PassEndedDuringJoin ==
    /\ handler = "on_close" /\ pc = "join"
    /\ ~join_timed_out
    /\ Running = {}

\* C4: game_loop never executes dump_memory_to_cache while a replay_memory
\* pass started at an earlier episode end is reading the durable cache.
C4_DumpNeverDuringCacheRead ==
    [][DumpStep => Reading = {}]_vars

\* C5: the in-memory replay buffer changes only in game_loop's remember and
\* dump steps, one at a time, and a training thread is started only once that
\* episode's dump_memory_to_cache has returned, the buffer persisted and cleared.
C5_ThreadStartsAfterDump ==
    [][/\ (memory' # memory =>
              handler = "game_loop" /\ pc \in {"step", "dump"} /\ threads' = threads)
       /\ (SpawnStep /\ ThreadStarted =>
              /\ memory = <<>>
              /\ calls[Len(calls)] = Call("dump_memory_to_cache", TRUE)
              /\ Applied("remember"))]_vars

C5_Witness_StartedAfterDump ==
    /\ handler = "game_loop" /\ pc = "reset"
    /\ Applied("dump_memory_to_cache") /\ Applied("Thread.start")
    /\ memory = <<>>
    /\ cache \notin InitCaches

\* C6: a game_loop run always has its next step enabled, whether or not a
\* training pass is in flight; the only wait on the thread is on_close's join.
C6_TickNeverWaitsForTraining ==
    /\ (handler = "game_loop" => ENABLED GameLoopStep)
    /\ (pc = "join" => handler = "on_close")

C6_Witness_TickGoesOnDuringPass ==
    /\ handler = "game_loop" /\ pc = "reset"
    /\ Applied("skip_start")
    /\ Running # {}
    /\ ENABLED GameLoopStep

\* C7: in both game loops, a failure raised by get_input_data, calculate_command,
\* car.move, evaluator.evaluate, remember or dump_memory_to_cache does not escape
\* game_loop: the process keeps running ticks.
PerTickCalls == {"get_input_data", "calculate_command", "car.move", "evaluate",
                 "remember", "dump_memory_to_cache"}

C7_PerTickErrorsCaught ==
    (\E op \in PerTickCalls : Raised(op)) => phase # "crashed"

\* C8: a replay_memory that raises or returns None leaves losses unchanged,
\* a loss is appended as exactly one entry, losses changes in no other step,
\* and the end of the thread leaves the event-loop thread where it was.
C8_TrainingFaultReportsNoLoss ==
    [][/\ \A i \in DOMAIN threads :
            Finishes(i) =>
              /\ threads[i].result.kind \in {"none", "raise"} => losses' = losses
              /\ threads[i].result.kind = "loss" =>
                     losses' = Append(losses, threads[i].result.val)
              /\ phase' = phase /\ handler' = handler /\ pc' = pc
       /\ (losses' # losses => \E i \in DOMAIN threads :
                                  Finishes(i) /\ threads[i].result.kind = "loss")]_vars

C8_Witness_RaisedPassLeftNoLoss ==
    /\ program = "train" /\ phase = "running"
    /\ threads # <<>> /\ Running = {}
    /\ cache >= BatchSize
    /\ losses = <<>>

\* C9: in main.py's game_loop, whenever car.move or evaluator.evaluate fails (or
\* the outer handler runs) the tick ends with car.init_position and
\* evaluator.reset_score both applied (taking the reset calls themselves to succeed).
C9_FaultResetsCarAndEvaluator ==
    (/\ program = "main" /\ phase = "running"
     /\ Raised("car.move") \/ Raised("evaluate")
     /\ ~Raised("car.init_position") /\ ~Raised("reset_score"))
    => (Applied("car.init_position") /\ Applied("reset_score")
        /\ car_at_start /\ ev_score = 0)

\* C10: at main.py start-up a missing model file means load_model_weights is
\* not called and a raising load_model_weights is caught; in both cases
\* start-up goes on to the game loop with the freshly initialized parameters.
AssetErrors == {"asset_missing", "track_load", "car_init", "lines_load"}

C10_ModelLoadFailureNonFatal ==
    (/\ program = "main" /\ phase # "boot"
     /\ model_file \in {"absent", "corrupt"}
     /\ startup_error \notin AssetErrors)
    => /\ phase = "running"
       /\ startup_error = "none"
       /\ params = FreshParams
       /\ (model_file = "absent" => ~Called("load_model_weights"))

C10_Witness_CorruptFileCaught ==
    /\ program = "main" /\ phase = "running"
    /\ model_file = "corrupt"
    /\ Raised("load_model_weights")
    /\ params = FreshParams

\* C11: when an asset file is missing, or Track.load_from_file or
\* LineEvaluator.load_lines_from_file raises, start-up aborts with that error:
\* the game loop is not scheduled and no step of the program follows.
StartupAssetErrors == {"asset_missing", "track_load", "lines_load"}

C11_StartupAssetErrorsFatal ==
    (\/ startup_error \in StartupAssetErrors
     \/ Raised("Track.load_from_file")
     \/ Raised("LineEvaluator.load_lines_from_file"))
    => /\ phase = "aborted"
       /\ startup_error \in StartupAssetErrors
       /\ handler = "idle"
       /\ ~Called("get_input_data")
       /\ ~ENABLED Next

C11_Witness_LinesLoadAborted ==
    /\ phase = "aborted"
    /\ startup_error = "lines_load"
    /\ Applied("Track.load_from_file")
    /\ Raised("LineEvaluator.load_lines_from_file")

\* C12: a training tick that is not skipped makes its calls in the order
\* get_input_data, calculate_command (training flag True), car.move, evaluate,
\* get_input_data, remember; a tick that runs to its end remembers exactly one
\* transition, the buffer grows in no other step, and dump_memory_to_cache is
\* called only after that tick's remember, on a tick that ends the episode.
TickOrder == <<"get_input_data", "calculate_command", "car.move", "evaluate",
               "get_input_data", "remember">>
InTickOrder(log) ==
    /\ Len(log) <= Len(TickOrder)
    /\ \A i \in DOMAIN log : log[i].op = TickOrder[i]
    /\ \A i \in DOMAIN log : i < Len(log) => log[i].ok
WholeTick(log) ==
    /\ Len(log) = Len(TickOrder)
    /\ InTickOrder(log)
    /\ log[Len(log)].ok
    /\ log[2].arg = "True"
TickBegins ==
    /\ program = "train" /\ phase = "running" /\ handler = "idle"
    /\ time_elapsed' # time_elapsed
TickSteps == handler = "game_loop" /\ pc = "step" /\ pc' # "step"

C12_TickOrderOneTransition ==
    [][/\ (TickBegins => /\ InTickOrder(calls')
                         /\ \A i \in DOMAIN calls' :
                               calls'[i].op = "calculate_command" => calls'[i].arg = "True")
       /\ (TickSteps => /\ InTickOrder(calls')
                        /\ SubSeq(calls', 1, Len(calls)) = calls)
       /\ (TickSteps /\ phase' = "running" =>
              /\ WholeTick(calls')
              /\ Len(memory') = Len(memory) + 1
              /\ SubSeq(memory', 1, Len(memory)) = memory)
       /\ (Len(memory') > Len(memory) => TickSteps /\ phase' = "running")
       /\ (DumpStep => /\ WholeTick(calls)
                       /\ memory # <<>>
                       /\ done \/ time_elapsed >= TimeLimit)]_vars

C12_Witness_DumpAfterSecondRemember ==
    /\ handler = "game_loop" /\ pc = StepAfter("dump")
    /\ Applied("dump_memory_to_cache")
    /\ WholeTick(SubSeq(calls, 1, Len(TickOrder)))
    /\ ~done /\ time_elapsed = 2 * DtShort
    /\ cache \in {c + 2 : c \in InitCaches}

\* C13: with the clock calling game_loop and the training thread scheduled,
\* every dump_memory_to_cache that has returned at an episode end -- the start
\* of a thread skipped or not -- is followed by the start of a training thread
\* (unless a raising call has ended the process first).
DumpReturned == handler = "game_loop" /\ pc = StepAfter("dump")
C13_DumpLeadsToTrainingStart ==
    DumpReturned ~> (Applied("Thread.start") \/ phase # "running")

\* the dump of an episode whose thread start is skipped, the running pass
\* having been started before the episodes now counted
C13_Witness_DumpedWhilePassRuns ==
    /\ handler = "game_loop" /\ pc = StepAfter("spawn")
    /\ Applied("dump_memory_to_cache") /\ Applied("skip_start")
    /\ game_count = 0
    /\ Running = {training_thread}

\* C14: over any number of episode ends epsilon stays between epsilon_min (0.1)
\* and its initial value 0.8, each decay_epsilon leaves it the larger of
\* epsilon_min and 0.99 of what it was, so it never rises, and repeated episode
\* ends bring it to epsilon_min, where it stays.
C14_EpsilonDecaysToMin ==
    /\ [](EpsilonMin <= epsilon /\ epsilon <= InitialEpsilon)
    /\ [][/\ epsilon' <= epsilon
          /\ (epsilon * 99 >= EpsilonMin * 100 => epsilon' = (epsilon * 99) \div 100)
          /\ (epsilon * 99 < EpsilonMin * 100 => epsilon' = EpsilonMin)
          /\ game_count' = game_count + 1]_vars
    /\ <>[](epsilon = EpsilonMin)

C14_Witness_FloorReached ==
    /\ epsilon = EpsilonMin
    /\ game_count > 200 /\ game_count < MaxDecays
    /\ ENABLED episode_end_decay

\* C15: evaluate advances last_crossed_index, and adds to the score, only when
\* the line crossed is the next expected one; crossing the line after it (k+2
\* without k+1) leaves index and score as they were; the score falls only in
\* reset_score.
EvaluateCalled == calls'[1].op = "evaluate"
CrossedLine == calls'[1].arg

C15_CheckpointProgressMonotonic ==
    [][/\ (EvaluateCalled /\ CrossedLine = LineName((last_crossed_index + 1) % NumLines) =>
              /\ last_crossed_index' = (last_crossed_index + 1) % NumLines
              /\ ev_score' = ev_score + 1)
       /\ (EvaluateCalled /\ CrossedLine # LineName((last_crossed_index + 1) % NumLines) =>
              /\ last_crossed_index' = last_crossed_index
              /\ ev_score' = ev_score)
       /\ (EvaluateCalled /\ CrossedLine = LineName((last_crossed_index + 2) % NumLines) =>
              last_crossed_index' = last_crossed_index)
       /\ (ev_score' < ev_score => calls'[1].op = "reset_score")]_vars

\* line k+2 has just been crossed with k the last valid crossing of a started lap
C15_Witness_SkippedCheckpointIgnored ==
    /\ calls # <<>> /\ calls[1].op = "evaluate"
    /\ calls[1].arg = LineName((last_crossed_index + 2) % NumLines)
    /\ ev_score > NumLines

\* C16: in main.py's game_loop a raising calculate_command makes the tick move
\* the car with the zero action and, the move done, still call evaluate; a
\* raising get_input_data alone leaves the policy's action in use, and the tick
\* goes on to calculate_command and car.move.
MoveCalledWith(action) ==
    \E i \in DOMAIN calls : calls[i].op = "car.move" /\ calls[i].arg = action

C16_ZeroActionOnCommandFailure ==
    (program = "main" /\ phase = "running" /\ Called("get_input_data"))
    => /\ Called("calculate_command") /\ Called("car.move")
       /\ (Raised("calculate_command") => MoveCalledWith("zero") /\ ~MoveCalledWith("policy"))
       /\ (~Raised("calculate_command") => MoveCalledWith("policy") /\ ~MoveCalledWith("zero"))
       /\ (Applied("car.move") => Called("evaluate"))

C16_Witness_ZeroActionMoved ==
    /\ program = "main" /\ phase = "running"
    /\ Applied("get_input_data") /\ Raised("calculate_command")
    /\ MoveCalledWith("zero") /\ Applied("car.move") /\ Applied("evaluate")

\* C17: a training tick that has run to its test ends the episode exactly when
\* the evaluator reported not-alive or time_elapsed has reached 300; the reset
\* that closes such a tick zeroes last_score and time_elapsed, adds one to
\* game_count, appends one entry to scores, re-places the car, resets the
\* evaluator score and sets skip_frame; no other step of the loop does any of these.
TimeIsUp == time_elapsed >= TimeLimit
ResetStep == handler = "game_loop" /\ pc = "reset" /\ pc' # "reset"

C17_EpisodeEndEffects ==
    [][/\ (TickSteps /\ phase' = "running" =>
              /\ (done' \/ TimeIsUp) <=> handler' = "game_loop"
              /\ ~(done' \/ TimeIsUp) <=> handler' = "idle"
              /\ game_count' = game_count /\ scores' = scores
              /\ skip_frame' = skip_frame /\ time_elapsed' = time_elapsed)
       /\ (handler = "game_loop" /\ pc # "step" => done \/ TimeIsUp)
       /\ (ResetStep =>
              /\ last_score' = 0 /\ time_elapsed' = 0
              /\ game_count' = game_count + 1
              /\ Len(scores') = Len(scores) + 1
              /\ scores'[Len(scores')] = ev_score + 100
              /\ car_at_start' /\ ev_score' = 0
              /\ skip_frame'
              /\ handler' = "idle")
       /\ (program = "train" /\ phase = "running" /\
           (\/ game_count' # game_count
            \/ scores' # scores
            \/ skip_frame' /\ ~skip_frame
            \/ time_elapsed' < time_elapsed
            \/ ev_score' < ev_score
            \/ last_score' < last_score
            \/ car_at_start' /\ ~car_at_start)
           => ResetStep /\ (done \/ TimeIsUp))]_vars

\* an episode ended by the clock alone, after a checkpoint was crossed
C17_Witness_EndedByTimeLimit ==
    /\ program = "train" /\ handler = "idle"
    /\ Applied("reset_score")
    /\ ~done
    /\ game_count = 1 /\ scores = <<ScoreOffset + 1>>
    /\ skip_frame /\ time_elapsed = 0 /\ last_score = 0
    /\ car_at_start /\ ev_score = 0

\* C18: the reset of an episode-ending tick sets skip_frame; while it is set the
\* next tick is the skipped one, which clears skip_frame and changes nothing
\* else (no call is made, time_elapsed, last_score, game_count, the car, the
\* evaluator and the buffer stay as they are); skip_frame is set by no other
\* step, so the tick after a skipped one runs in full.
SkipStep ==
    /\ program = "train" /\ phase = "running" /\ handler = "idle"
    /\ skip_frame /\ ~skip_frame'

C18_ExactlyOneTickSkipped ==
    [][/\ (ResetStep => skip_frame' /\ handler' = "idle")
       /\ (Train /\ handler = "idle" /\ skip_frame =>
              ENABLED game_loop_skip /\ ~ENABLED game_loop_begin)
       /\ (SkipStep =>
              /\ UNCHANGED <<time_elapsed, last_score, game_count, car_at_start, ev_score,
                             last_crossed_index, memory, cache, calls, scores, done,
                             epsilon, params>>
              /\ handler' = "idle" /\ phase' = "running")
       /\ (TickBegins => ~skip_frame)
       /\ (skip_frame' /\ ~skip_frame => ResetStep)
       /\ (Train /\ handler = "idle" /\ ~skip_frame /\ game_count < MaxGames =>
              ENABLED game_loop_begin /\ ~ENABLED game_loop_skip)]_vars

\* the skipped tick has passed: the log is still the episode-ending tick's
C18_Witness_TickAfterSkipRuns ==
    /\ Train /\ handler = "idle"
    /\ ~skip_frame
    /\ game_count = 1 /\ time_elapsed = 0
    /\ Applied("reset_score")
    /\ ENABLED game_loop_begin

\* C19: at the start of every training tick last_score equals the evaluator's
\* score; the reward a tick remembers is the score gained in that tick; and at
\* an episode's end, before reset_score, the buffer holds that episode's
\* transitions and their rewards sum to the evaluator's score.
RECURSIVE RewardSum(_)
RewardSum(m) == IF m = <<>> THEN 0 ELSE m[1].reward + RewardSum(Tail(m))

TrainRuns == program = "train" /\ phase = "running"

C19_RewardsAccountForScore ==
    /\ [](/\ (TrainRuns /\ handler = "idle" => last_score = ev_score)
          /\ (TrainRuns /\ handler = "game_loop" /\ pc = "step" => last_score = ev_score)
          /\ (TrainRuns /\ handler = "game_loop" /\ pc = EpisodeEndOrder[1] =>
                  RewardSum(memory) = ev_score)
          /\ (TrainRuns /\ handler = "idle" /\ ~skip_frame =>
                  RewardSum(memory) = ev_score))
    /\ [][TickSteps /\ phase' = "running" =>
              /\ memory'[Len(memory')].reward = ev_score' - ev_score
              /\ last_score' = ev_score']_vars

\* an episode of two ticks ends: the checkpoint crossed in one of them is the
\* episode's whole score
C19_Witness_EpisodeRewardsSumToScore ==
    /\ program = "train" /\ handler = "game_loop" /\ pc = EpisodeEndOrder[1]
    /\ Len(memory) = 2
    /\ memory[1].reward = 1 /\ memory[2].reward = 0
    /\ ev_score = 1

\* C20: main.py hands calculate_command the training flag False in every call,
\* none of its ticks, resets or error paths calls remember,
\* dump_memory_to_cache, replay_memory, decay_epsilon or save_model_weights,
\* and the driver's buffer, cache, epsilon and parameters, the weights file and
\* the set of threads stay as start-up left them.
LearningCalls == {"remember", "dump_memory_to_cache", "replay_memory", "decay_epsilon",
                  "save_model_weights", "Thread.start"}
MainRuns == program = "main" /\ phase = "running"

C20_InferenceNeverExploresOrLearns ==
    /\ [](MainRuns =>
            /\ \A i \in DOMAIN calls :
                  /\ calls[i].op = "calculate_command" => calls[i].arg = "False"
                  /\ calls[i].op \notin LearningCalls
            /\ memory = <<>> /\ threads = <<>> /\ losses = <<>>)
    /\ [][MainRuns =>
            UNCHANGED <<memory, cache, epsilon, params, model_file, threads, losses>>]_vars

\* a tick of main.py on loaded weights and a non-zero epsilon, ended by a reset
C20_Witness_TickOnLoadedWeights ==
    /\ MainRuns
    /\ Applied("calculate_command") /\ Applied("reset_score")
    /\ params.base = "loaded"
    /\ epsilon = InitialEpsilon
====
